---- MODULE Spec2Model ----
(***************************************************************************)
(* A model of the YouTube summarizer: the timestamp codec, the video-id    *)
(* extraction, the parser of the model's reply, the upload-and-poll audio  *)
(* analysis, and the three orchestrators (main in main.py, run_agent in    *)
(* agent_scraper.py, run_agent in auto_scraper.py).                        *)
(*                                                                         *)
(* A Python str is a sequence of one-character strings.  The code points   *)
(* U+1F4DD, U+23F1 and U+FE0F of the two section headings are written      *)
(* "<memo>", "<stopwatch>" and "<vs16>"; each is one element.              *)
(*                                                                         *)
(* The remote collaborators (transcript service, yt-dlp, the Gemini API)   *)
(* return or raise nondeterministically.  The local file system is taken   *)
(* to work: tempfile, os.path.exists, os.remove, open and write do not     *)
(* raise.                                                                  *)
(***************************************************************************)
EXTENDS Integers, Sequences, FiniteSets, TLC

(***************************************************************************)
(* Python str helpers                                                      *)
(***************************************************************************)

UpperCase == <<"A","B","C","D","E","F","G","H","I","J","K","L","M",
               "N","O","P","Q","R","S","T","U","V","W","X","Y","Z">>

LowerCase == <<"a","b","c","d","e","f","g","h","i","j","k","l","m",
               "n","o","p","q","r","s","t","u","v","w","x","y","z">>

\* re.IGNORECASE compares characters after case folding.
Lower(c) ==
  IF \E i \in 1..Len(UpperCase) : UpperCase[i] = c
  THEN LowerCase[CHOOSE i \in 1..Len(UpperCase) : UpperCase[i] = c]
  ELSE c

\* The class \s of re, which is also what str.strip() removes.
IsSpace(c) == c \in {" ", "\n", "\t", "\r"}

\* The class \d of re.
IsDigit(c) == c \in {"0","1","2","3","4","5","6","7","8","9"}

\* s[i-1:j-1] of Python, with 1-based i and exclusive 1-based j.
Slice(s, i, j) == IF j <= i THEN <<>> ELSE SubSeq(s, i, j - 1)

\* The literal lit stands in s at position i (ci: ignoring case).
MatchLit(s, i, lit, ci) ==
  /\ i >= 1
  /\ i + Len(lit) - 1 <= Len(s)
  /\ \A k \in 1..Len(lit) :
       IF ci THEN Lower(s[i + k - 1]) = Lower(lit[k]) ELSE s[i + k - 1] = lit[k]

\* pat in s
Contains(s, pat) == \E i \in 1..(Len(s) + 1) : MatchLit(s, i, pat, FALSE)

\* The least element of a non-empty set of positions.
Least(S) == CHOOSE p \in S : \A q \in S : p <= q

\* The first position >= i where pat stands in s, Len(s) + 1 when there is none.
FindFrom(s, i, pat) ==
  LET hits == { j \in i..Len(s) : MatchLit(s, j, pat, FALSE) }
  IN  IF hits = {} THEN Len(s) + 1 ELSE Least(hits)

RECURSIVE SplitFrom(_, _, _)
\* str.split(sep) on s[i-1:]: always at least one piece, empty pieces kept.
SplitFrom(s, i, sep) ==
  LET j == FindFrom(s, i, sep)
  IN  IF j > Len(s) THEN << Slice(s, i, Len(s) + 1) >>
      ELSE << Slice(s, i, j) >> \o SplitFrom(s, j + Len(sep), sep)

\* str.split(sep)
Split(s, sep) == SplitFrom(s, 1, sep)

\* The end of the greedy \s* that starts at position i.
SkipSpace(s, i) ==
  CHOOSE j \in i..(Len(s) + 1) :
    /\ \A k \in i..(j - 1) : IsSpace(s[k])
    /\ (j = Len(s) + 1 \/ ~IsSpace(s[j]))

\* The end of the greedy .* (no DOTALL) that starts at position i.
LineEnd(s, i) ==
  CHOOSE j \in i..(Len(s) + 1) :
    /\ \A k \in i..(j - 1) : s[k] # "\n"
    /\ (j = Len(s) + 1 \/ s[j] = "\n")

\* str.strip()
Strip(s) ==
  LET a == SkipSpace(s, 1)
      b == IF a > Len(s) THEN a - 1
           ELSE CHOOSE j \in a..Len(s) :
                  /\ ~IsSpace(s[j])
                  /\ \A k \in (j + 1)..Len(s) : IsSpace(s[k])
  IN  Slice(s, a, b + 1)

\* s[:n]
Take(s, n) == IF Len(s) <= n THEN s ELSE SubSeq(s, 1, n)

RECURSIVE Join(_, _)
\* sep.join(parts)
Join(parts, sep) ==
  IF Len(parts) = 0 THEN <<>>
  ELSE IF Len(parts) = 1 THEN parts[1]
  ELSE parts[1] \o sep \o Join(Tail(parts), sep)

(***************************************************************************)
(* Timestamp codec: format_timestamp                                       *)
(***************************************************************************)

\* A float is an integer count of 1/FloatScale seconds.
FloatScale == 10

\* int(x) of a non-negative float: truncation.
IntOf(x) == x \div FloatScale

DigitChars == <<"0","1","2","3","4","5","6","7","8","9">>

RECURSIVE Dec(_)
\* str(n) of a non-negative int.
Dec(n) == IF n < 10 THEN << DigitChars[n + 1] >>
          ELSE Dec(n \div 10) \o << DigitChars[(n % 10) + 1] >>

\* f"{n:02d}": zero-padded to at least two digits, never cut.
PadWidth == 2

RECURSIVE ZeroPad(_, _)
ZeroPad(d, w) == IF Len(d) >= w THEN d ELSE ZeroPad(<<"0">> \o d, w)

Fmt02d(n) == ZeroPad(Dec(n), PadWidth)

\* divmod(a, 60)
SecondsPerMinute == 60

DivMod60(a) == << a \div SecondsPerMinute, a % SecondsPerMinute >>

\* A faulty variant: the hours are never split off the minutes.
format_timestamp_NoHours(seconds) ==
  LET secs == IntOf(seconds)
      ms   == DivMod60(secs)
  IN  Fmt02d(ms[1]) \o <<":">> \o Fmt02d(ms[2])

\* format_timestamp(seconds): HH:MM:SS when h > 0, else MM:SS.
format_timestamp(seconds) ==
  LET secs == IntOf(seconds)
      ms   == DivMod60(secs)
      hm   == DivMod60(ms[1])
      h    == hm[1]
      m    == hm[2]
      s    == ms[2]
  IN  IF h > 0
      THEN Fmt02d(h) \o <<":">> \o Fmt02d(m) \o <<":">> \o Fmt02d(s)
      ELSE Fmt02d(m) \o <<":">> \o Fmt02d(s)

(***************************************************************************)
(* Output parser: _parse_gemini_output / parse_gemini_output               *)
(***************************************************************************)

HashHash == <<"#","#">>

TitleLit == <<"T","i","t","l","e",":">>

SummaryHeadingLit ==
  <<"<memo>"," ","E","x","e","c","u","t","i","v","e"," ",
    "S","u","m","m","a","r","y","\n">>

TopicsHeadingLit ==
  <<"<stopwatch>","<vs16>"," ","K","e","y"," ","T","o","p","i","c","s"," ",
    "&"," ","T","i","m","e","s","t","a","m","p","s">>

BulletOpenLit == <<"-"," ","*","*","[">>

BulletCloseLit == <<"]","*","*">>

EllipsisLit == <<".",".",".">>

\* r"##\s*Title:\s*(.*)" with re.IGNORECASE matches at position p.
TitleMatchAt(s, p) ==
  /\ MatchLit(s, p, HashHash, TRUE)
  /\ MatchLit(s, SkipSpace(s, p + Len(HashHash)), TitleLit, TRUE)

\* title_match.group(1)
TitleGroup(s, p) ==
  LET r == SkipSpace(s, SkipSpace(s, p + Len(HashHash)) + Len(TitleLit))
  IN  Slice(s, r, LineEnd(s, r))

\* The heading part r"##\s*<memo> Executive Summary\n" matches at position p.
SummaryMatchAt(s, p) ==
  /\ MatchLit(s, p, HashHash, TRUE)
  /\ MatchLit(s, SkipSpace(s, p + Len(HashHash)), SummaryHeadingLit, TRUE)

\* The lookahead r"\n\n##\s*<stopwatch><vs16> Key Topics & Timestamps" holds at j.
TopicsLookahead(s, j) ==
  /\ MatchLit(s, j, <<"\n","\n">> \o HashHash, TRUE)
  /\ MatchLit(s, SkipSpace(s, j + 2 + Len(HashHash)), TopicsHeadingLit, TRUE)

\* Where the lazy (.*?) under re.DOTALL stops: the first j with the lookahead or \Z.
LazyEnd(s, i) ==
  Least({ j \in i..(Len(s) + 1) : j > Len(s) \/ TopicsLookahead(s, j) })

\* executive_summary_match.group(1)
SummaryGroup(s, p) ==
  LET a == SkipSpace(s, p + Len(HashHash)) + Len(SummaryHeadingLit)
  IN  Slice(s, a, LazyEnd(s, a))

\* r"##\s*<stopwatch><vs16> Key Topics & Timestamps\n(.*)" matches at position p.
TopicsMatchAt(s, p) ==
  /\ MatchLit(s, p, HashHash, TRUE)
  /\ MatchLit(s, SkipSpace(s, p + Len(HashHash)),
              TopicsHeadingLit \o <<"\n">>, TRUE)

\* key_topics_section_match.group(1): under re.DOTALL, the rest of the text.
TopicsGroup(s, p) ==
  Slice(s, SkipSpace(s, p + Len(HashHash)) + Len(TopicsHeadingLit) + 1, Len(s) + 1)

MatchAt(re, s, p) ==
  CASE re = "title"   -> TitleMatchAt(s, p)
    [] re = "summary" -> SummaryMatchAt(s, p)
    [] re = "topics"  -> TopicsMatchAt(s, p)

\* re.search: the leftmost position where the pattern matches, 0 for None.
Search(re, s) ==
  LET hits == { p \in 1..Len(s) : MatchAt(re, s, p) }
  IN  IF hits = {} THEN 0 ELSE Least(hits)

\* \d{2} at position i
TwoDigitsAt(l, i) == i + 1 <= Len(l) /\ IsDigit(l[i]) /\ IsDigit(l[i + 1])

\* r"^- \*\*\[(\d{2}:\d{2}(?::\d{2})?)\]\*\*" on a line: the position just after
\* group 1, 0 when the line does not match.  The optional :\d{2} is tried first.
BulletTsEnd(l) ==
  LET a == Len(BulletOpenLit) + 1
  IN  IF ~(/\ MatchLit(l, 1, BulletOpenLit, FALSE)
           /\ TwoDigitsAt(l, a)
           /\ MatchLit(l, a + 2, <<":">>, FALSE)
           /\ TwoDigitsAt(l, a + 3))
      THEN 0
      ELSE IF /\ MatchLit(l, a + 5, <<":">>, FALSE)
              /\ TwoDigitsAt(l, a + 6)
              /\ MatchLit(l, a + 8, BulletCloseLit, FALSE)
           THEN a + 8
      ELSE IF MatchLit(l, a + 5, BulletCloseLit, FALSE) THEN a + 5
      ELSE 0

\* KeyTopic(timestamp=..., topic=...): both fields are plain str, nothing else is
\* validated.
KeyTopic(timestamp, topic) == [timestamp |-> timestamp, topic |-> topic]

\* A faulty variant: the pattern without its optional (?::\d{2}), so that a
\* bullet with an HH:MM:SS timestamp does not match.
KeyTopicsOfLine_NoSeconds(line) ==
  LET l == Strip(line)
      a == Len(BulletOpenLit) + 1
      e == IF /\ MatchLit(l, 1, BulletOpenLit, FALSE)
              /\ TwoDigitsAt(l, a)
              /\ MatchLit(l, a + 2, <<":">>, FALSE)
              /\ TwoDigitsAt(l, a + 3)
              /\ MatchLit(l, a + 5, BulletCloseLit, FALSE)
           THEN a + 5 ELSE 0
  IN  IF e = 0 THEN <<>>
      ELSE << KeyTopic(Slice(l, a, e),
                       Strip(Slice(l, SkipSpace(l, e + Len(BulletCloseLit)),
                                   Len(l) + 1))) >>

\* One pass of the loop body over a line: the KeyTopic appended, if any.
KeyTopicsOfLine(line) ==
  LET l == Strip(line)
      e == BulletTsEnd(l)
  IN  IF e = 0 THEN <<>>
      ELSE << KeyTopic(Slice(l, Len(BulletOpenLit) + 1, e),
                       Strip(Slice(l, SkipSpace(l, e + Len(BulletCloseLit)),
                                   Len(l) + 1))) >>

RECURSIVE KeyTopicsOfLines(_)
\* for line in key_topics_text.split('\n'): ...
KeyTopicsOfLines(lines) ==
  IF Len(lines) = 0 THEN <<>>
  ELSE KeyTopicsOfLine(Head(lines)) \o KeyTopicsOfLines(Tail(lines))

\* Longest title taken from the first sentence, and what it is cut to.
TitleMax == 100

TitleCut == 97

\* VideoAnalysis(title=..., executive_summary=..., key_topics=...): the fields are
\* str, str and List[KeyTopic] with no length constraint, so empty strings pass.
VideoAnalysis(title, executive_summary, key_topics) ==
  [title |-> title, executive_summary |-> executive_summary,
   key_topics |-> key_topics]

\* A faulty variant: gemini_output.splitlines(), which gives no line at all for
\* the empty text.
SplitLines_Splitlines(gemini_output) ==
  IF gemini_output = <<>> THEN <<>> ELSE Split(gemini_output, <<"\n">>)

\* gemini_output.split('\n')
SplitLines(gemini_output) == Split(gemini_output, <<"\n">>)

\* The parser.  final_fallback: analyzer.py has the last `if not title and
\* executive_summary` step, agent_scraper.py has not.  raised: an IndexError of
\* split('\n')[0].
ParseGeminiOutput(gemini_output, final_fallback) ==
  LET tp == Search("title", gemini_output)
      title1 == IF tp # 0 THEN Strip(TitleGroup(gemini_output, tp)) ELSE <<>>
      sp == Search("summary", gemini_output)
      executive_summary ==
        IF sp # 0 THEN Strip(SummaryGroup(gemini_output, sp)) ELSE <<>>
      kp == Search("topics", gemini_output)
      key_topics ==
        IF kp # 0
        THEN KeyTopicsOfLines(Split(TopicsGroup(gemini_output, kp), <<"\n">>))
        ELSE <<>>
      lines == SplitLines(gemini_output)
      raised == title1 = <<>> /\ Len(lines) = 0
      first_line == IF Len(lines) = 0 THEN <<>> ELSE lines[1]
      title2 == IF title1 = <<>> /\ ~MatchLit(first_line, 1, HashHash, FALSE)
                THEN Strip(first_line) ELSE title1
      first_sentence_summary == Strip(Split(executive_summary, <<".">>)[1])
      title3 == IF title2 = <<>> /\ executive_summary # <<>>
                   /\ first_sentence_summary # <<>>
                THEN IF Len(first_sentence_summary) > TitleMax
                     THEN Take(first_sentence_summary, TitleCut) \o EllipsisLit
                     ELSE first_sentence_summary
                ELSE title2
      title4 == IF final_fallback /\ title3 = <<>> /\ executive_summary # <<>>
                THEN IF Len(executive_summary) > TitleMax
                     THEN Take(executive_summary, TitleMax) \o EllipsisLit
                     ELSE executive_summary
                ELSE title3
  IN  [raised |-> raised,
       value  |-> VideoAnalysis(title4, executive_summary, key_topics)]

(***************************************************************************)
(* Video identifier extraction: get_video_id                               *)
(***************************************************************************)

\* Python's None where a str could stand; no str equals it.
None == << "<None>" >>

\* `not x` of a value that is None or a str
Falsy(x) == x = None \/ x = <<>>

YoutuBeLit == <<"y","o","u","t","u",".","b","e">>

VEqLit == <<"v","=">>

\* parts[-1]
Last(parts) == parts[Len(parts)]

get_video_id(url) ==
  IF Contains(url, YoutuBeLit)
  THEN Split(Last(Split(url, <<"/">>)), <<"?">>)[1]
  ELSE IF Contains(url, VEqLit)
  THEN Split(Split(url, VEqLit)[2], <<"&">>)[1]
  ELSE None

\* VideoScraper.get_video_id of main.py: src/scraper.py is not among the sources;
\* the rule of the specification, section 4.7.
VideoScraper_get_video_id(url) ==
  IF Contains(url, YoutuBeLit)
  THEN Split(Last(Split(url, <<"/">>)), <<"?">>)[1]
  ELSE IF Contains(url, VEqLit)
  THEN Split(Split(url, VEqLit)[2], <<"&">>)[1]
  ELSE None

(***************************************************************************)
(* Inputs of a run                                                         *)
(***************************************************************************)

UrlShort ==
  <<"h","t","t","p","s",":","/","/","y","o","u","t","u",".","b","e","/",
    "a","b","c","1","2","3","?","t","=","5">>

UrlWatch ==
  <<"h","t","t","p","s",":","/","/","w","w","w",".","y","o","u","t","u","b","e",
    ".","c","o","m","/","w","a","t","c","h","?","v","=","x","y","z","7","8","9",
    "&","l","i","s","t","=","f","o","o">>

UrlNeither ==
  <<"h","t","t","p","s",":","/","/","e","x","a","m","p","l","e",".","c","o","m",
    "/","v","i","d","e","o">>

UrlShortEmpty ==
  <<"h","t","t","p","s",":","/","/","y","o","u","t","u",".","b","e","/">>

UrlWatchEmpty ==
  <<"h","t","t","p","s",":","/","/","w","w","w",".","y","o","u","t","u","b","e",
    ".","c","o","m","/","w","a","t","c","h","?","v","=","&","t","=","1">>

Urls == { UrlShort, UrlWatch, UrlNeither, UrlShortEmpty, UrlWatchEmpty }

\* A reply that follows the template of the prompt, and one without any marker.
ReplyTemplate ==
  <<"#","#"," ","T","i","t","l","e",":"," ","I","n","t","r","o"," ","t","o"," ",
    "G","o","\n","#","#"," ","<memo>"," ","E","x","e","c","u","t","i","v","e"," ",
    "S","u","m","m","a","r","y","\n","G","o"," ","b","a","s","i","c","s","."," ",
    "M","o","r","e",".","\n","\n","#","#"," ","<stopwatch>","<vs16>"," ","K","e",
    "y"," ","T","o","p","i","c","s"," ","&"," ","T","i","m","e","s","t","a","m",
    "p","s","\n","-"," ","*","*","[","0","0",":","1","0","]","*","*"," ","S","e",
    "t","u","p","\n","-"," ","*","*","[","0","1",":","0","2",":","0","3","]","*",
    "*"," ","W","r","a","p","-","u","p">>

ReplyLoose ==
  <<"U","n","d","e","r","s","t","a","n","d","i","n","g"," ","g","R","P","C","\n",
    "n","o"," ","m","a","r","k","e","r","s"," ","h","e","r","e">>

Replies == { ReplyTemplate, ReplyLoose, <<>> }

\* TranscriptSegment(start=..., text=...); start is a float, in 1/FloatScale s.
TranscriptSegment(start, text) == [start |-> start, text |-> text]

\* What a transcript fetch may return.
TranscriptChoices ==
  { <<>>,
    << TranscriptSegment(0, <<"h","i">>) >>,
    << TranscriptSegment(5, <<"a">>),
       TranscriptSegment(3661 * FloatScale + 4, <<"b">>) >> }

Impls == { "main", "agent", "auto" }

\* Most get_file polls that may still answer PROCESSING.
MaxPolls == 2

(***************************************************************************)
(* State                                                                   *)
(***************************************************************************)

VARIABLES
  impl,                  \* which orchestrator runs: main / agent / auto
  youtube_url,           \* the argument of the run
  video_id,              \* get_video_id(youtube_url)
  pc,                    \* where the run stands
  fetched,               \* what the transcript fetch gave
  full_text,             \* the "[MM:SS] text\n" lines of the text prompt
  response_text,         \* response.text of the last generate_content
  parsed,                \* what the parser gave for response_text
  ret,                   \* the value analyze_audio is about to return
  raising,               \* an exception is propagating out of Plan B
  video_analysis_result, \* the orchestrator's result
  plan,                  \* the plan that produced it
  audio_file_exists,     \* the local audio file exists
  audio_file_state,      \* audio_file.state.name; NONE: audio_file is not bound
  remote_exists,         \* the uploaded file exists at the service
  polls,                 \* get_file calls of the poll loop
  calls,                 \* how often each collaborator or output call was made
  ts_input,              \* the argument of format_timestamp (codec runs)
  time_str               \* its result

vars ==
  << impl, youtube_url, video_id, pc, fetched, full_text, response_text, parsed,
     ret, raising, video_analysis_result, plan, audio_file_exists,
     audio_file_state, remote_exists, polls, calls, ts_input, time_str >>

CallNames ==
  { "fetch_transcript", "generate_text", "download_audio", "upload_file",
    "get_file", "generate_audio", "delete_file", "write_json", "print_json",
    "print_summary" }

\* video_analysis_result = None
NoAnalysis == [none |-> TRUE]

NotParsed == [raised |-> FALSE, value |-> NoAnalysis]

\* Before the fetch; calls["fetch_transcript"] tells whether it was made.
NotFetched == [raised |-> FALSE, segments |-> <<>>]

Bump(c, name) == [c EXCEPT ![name] = @ + 1]

\* Everything but impl, youtube_url, response_text, ts_input and pc, before a run.
Fresh ==
  /\ video_id = None
  /\ fetched = NotFetched
  /\ full_text = <<>>
  /\ parsed = NotParsed
  /\ ret = NoAnalysis
  /\ raising = FALSE
  /\ video_analysis_result = NoAnalysis
  /\ plan = "none"
  /\ audio_file_exists = FALSE
  /\ audio_file_state = "NONE"
  /\ remote_exists = FALSE
  /\ polls = 0
  /\ calls = [n \in CallNames |-> 0]
  /\ time_str = None

Init ==
  /\ impl \in Impls
  /\ youtube_url \in Urls
  /\ pc = "START"
  /\ response_text = None
  /\ ts_input = 0
  /\ Fresh

(***************************************************************************)
(* The orchestrators: main (main.py), run_agent (agent_scraper.py,         *)
(* auto_scraper.py)                                                        *)
(***************************************************************************)

GetVideoId(i, url) ==
  IF i = "main" THEN VideoScraper_get_video_id(url) ELSE get_video_id(url)

\* A faulty variant: `if video_id is None:`, which lets an empty identifier pass.
InvalidId_IsNone(id) == id = None

\* `if not video_id:`
InvalidId(id) == Falsy(id)

\* START: extract the identifier; without one the run ends, nothing else is tried.
Start ==
  /\ pc = "START"
  /\ video_id' = GetVideoId(impl, youtube_url)
  /\ pc' = IF InvalidId(video_id') THEN "FAILED" ELSE "TRY_TRANSCRIPT"
  /\ UNCHANGED << impl, youtube_url, fetched, full_text, response_text, parsed,
                  ret, raising, video_analysis_result, plan, audio_file_exists,
                  audio_file_state, remote_exists, polls, calls, ts_input,
                  time_str >>

FetchOutcomes ==
  { [raised |-> TRUE, segments |-> <<>>] }
    \cup { [raised |-> FALSE, segments |-> t] : t \in TranscriptChoices }

\* Where Plan A goes after the fetch.  main.py tests `if transcript_segments:`;
\* the run_agent functions hand whatever was returned to analyze_transcript_data.
AfterFetch(i, outcome) ==
  IF outcome.raised THEN "TRY_AUDIO"
  ELSE IF i = "main" /\ Len(outcome.segments) = 0 THEN "TRY_AUDIO"
  ELSE "ANALYZE_TEXT_PROMPT"

\* TRY_TRANSCRIPT
FetchTranscript ==
  /\ pc = "TRY_TRANSCRIPT"
  /\ calls' = Bump(calls, "fetch_transcript")
  /\ \E outcome \in FetchOutcomes :
       /\ fetched' = outcome
       /\ pc' = AfterFetch(impl, outcome)
  /\ UNCHANGED << impl, youtube_url, video_id, full_text, response_text, parsed,
                  ret, raising, video_analysis_result, plan, audio_file_exists,
                  audio_file_state, remote_exists, polls, ts_input, time_str >>

RECURSIVE FullText(_)
\* full_text += f"[{time_str}] {segment.text}\n" for each segment
FullText(segments) ==
  IF Len(segments) = 0 THEN <<>>
  ELSE <<"[">> \o format_timestamp(Head(segments).start) \o <<"]", " ">>
         \o Head(segments).text \o <<"\n">> \o FullText(Tail(segments))

\* A faulty variant: an exception in Plan A ends the run.
TextFailureTarget_Abort == "FAILED"

\* An exception anywhere in Plan A is caught by `except Exception` and the run
\* goes on to Plan B.
TextFailureTarget == "TRY_AUDIO"

\* ANALYZE_TEXT, the prompt: built, or an exception.
BuildTextPrompt ==
  /\ pc = "ANALYZE_TEXT_PROMPT"
  /\ \E ok \in BOOLEAN :
       /\ full_text' = IF ok THEN FullText(fetched.segments) ELSE full_text
       /\ pc' = IF ok THEN "ANALYZE_TEXT_SEND" ELSE TextFailureTarget
  /\ UNCHANGED << impl, youtube_url, video_id, fetched, response_text, parsed,
                  ret, raising, video_analysis_result, plan, audio_file_exists,
                  audio_file_state, remote_exists, polls, calls, ts_input,
                  time_str >>

\* What generate_content(...) followed by response.text gives: a text or an exception.
GenerateOutcomes ==
  { [raised |-> TRUE, text |-> None] }
    \cup { [raised |-> FALSE, text |-> r] : r \in Replies }

\* ANALYZE_TEXT, sendText.  auto_scraper.py returns response.text unparsed and
\* run_agent prints it and returns.
SendText ==
  /\ pc = "ANALYZE_TEXT_SEND"
  /\ \E outcome \in GenerateOutcomes :
       /\ response_text' = IF outcome.raised THEN response_text ELSE outcome.text
       /\ pc' = IF outcome.raised THEN TextFailureTarget
                ELSE IF impl = "auto" THEN "DONE" ELSE "ANALYZE_TEXT_PARSE"
       /\ plan' = IF ~outcome.raised /\ impl = "auto" THEN "A" ELSE plan
       /\ calls' = IF ~outcome.raised /\ impl = "auto"
                   THEN Bump(Bump(calls, "generate_text"), "print_summary")
                   ELSE Bump(calls, "generate_text")
  /\ UNCHANGED << impl, youtube_url, video_id, fetched, full_text, parsed, ret,
                  raising, video_analysis_result, audio_file_exists,
                  audio_file_state, remote_exists, polls, ts_input, time_str >>

\* A faulty variant: Plan B is entered without testing the result of Plan A.
PlanASuccessTarget_FallsThrough == "TRY_AUDIO"

\* Where the run goes once Plan A has produced its analysis: main.py skips Plan B
\* by `if not video_analysis_result:`, run_agent returns the analysis.
PlanASuccessTarget == "OUTPUT"

\* ANALYZE_TEXT, the parser.
ParseText ==
  /\ pc = "ANALYZE_TEXT_PARSE"
  /\ parsed' = ParseGeminiOutput(response_text, impl = "main")
  /\ IF parsed'.raised
     THEN /\ pc' = TextFailureTarget
          /\ UNCHANGED << video_analysis_result, plan >>
     ELSE /\ video_analysis_result' = parsed'.value
          /\ plan' = "A"
          /\ pc' = PlanASuccessTarget
  /\ UNCHANGED << impl, youtube_url, video_id, fetched, full_text, response_text,
                  ret, raising, audio_file_exists, audio_file_state,
                  remote_exists, polls, calls, ts_input, time_str >>

\* What download_audio may do.  ok: the path is returned and the file is there;
\* none: None is returned; raise: an exception (VideoScraper.download_audio, whose
\* source is not given); missing: the path is returned and no file is there (the
\* two download_audio functions catch every exception and return None).
DownloadOutcomes(i) ==
  IF i = "main" THEN { "ok", "none", "raise" } ELSE { "ok", "none", "missing" }

\* Where an exception raised inside analyze_audio takes the run: in main.py
\* through the finally of analyze_audio; in agent_scraper.py to `except Exception`
\* of run_agent, which returns None; in auto_scraper.py to the finally around
\* analyze_audio, which removes the local file.
ExcTarget(i) ==
  CASE i = "main"  -> "REMOTE_CLEANUP"
    [] i = "agent" -> "OUTPUT"
    [] i = "auto"  -> "LOCAL_CLEANUP"

\* TRY_AUDIO.  main.py first creates the temporary file (NamedTemporaryFile with
\* delete=False), so the path exists whatever the download does.
DownloadAudio ==
  /\ pc = "TRY_AUDIO"
  /\ calls' = Bump(calls, "download_audio")
  /\ \E outcome \in DownloadOutcomes(impl) :
       /\ audio_file_exists' = (impl = "main" \/ outcome = "ok")
       /\ raising' = (outcome = "raise")
       /\ pc' = IF outcome = "ok" THEN "UPLOAD"
                ELSE CASE impl = "main"  -> "LOCAL_CLEANUP"
                       [] impl = "agent" -> "OUTPUT"
                       [] impl = "auto"  -> "FAILED"
  /\ UNCHANGED << impl, youtube_url, video_id, fetched, full_text, response_text,
                  parsed, ret, video_analysis_result, plan, audio_file_state,
                  remote_exists, polls, ts_input, time_str >>

\* ANALYZE_AUDIO: genai.upload_file raises, or returns a handle in some state.
UploadAudio ==
  /\ pc = "UPLOAD"
  /\ calls' = Bump(calls, "upload_file")
  /\ \E st \in { "RAISE", "PROCESSING", "ACTIVE", "FAILED" } :
       IF st = "RAISE"
       THEN /\ raising' = TRUE
            /\ pc' = ExcTarget(impl)
            /\ UNCHANGED << audio_file_state, remote_exists >>
       ELSE /\ audio_file_state' = st
            /\ remote_exists' = TRUE
            /\ pc' = "POLL"
            /\ UNCHANGED raising
  /\ UNCHANGED << impl, youtube_url, video_id, fetched, full_text, response_text,
                  parsed, ret, video_analysis_result, plan, audio_file_exists,
                  polls, ts_input, time_str >>

\* The states a get_file may report; PROCESSING at most MaxPolls - 1 times more.
PollStates(n) ==
  { "RAISE", "ACTIVE", "FAILED" }
    \cup (IF n + 1 < MaxPolls THEN { "PROCESSING" } ELSE {})

\* One turn of `while audio_file.state.name == "PROCESSING":` -- log, sleep,
\* get_file.  agent_scraper.py logs with logger.info('.', end='', flush=True),
\* which raises TypeError before the sleep.
PollWait ==
  /\ pc = "POLL"
  /\ audio_file_state = "PROCESSING"
  /\ IF impl = "agent"
     THEN /\ raising' = TRUE
          /\ pc' = ExcTarget(impl)
          /\ UNCHANGED << audio_file_state, polls, calls >>
     ELSE /\ calls' = Bump(calls, "get_file")
          /\ polls' = polls + 1
          /\ \E st \in PollStates(polls) :
               IF st = "RAISE"
               THEN /\ raising' = TRUE
                    /\ pc' = ExcTarget(impl)
                    /\ UNCHANGED audio_file_state
               ELSE /\ audio_file_state' = st
                    /\ UNCHANGED << raising, pc >>
  /\ UNCHANGED << impl, youtube_url, video_id, fetched, full_text, response_text,
                  parsed, ret, video_analysis_result, plan, audio_file_exists,
                  remote_exists, ts_input, time_str >>

\* After the loop.  Only auto_scraper.py tests the state it left the loop with:
\* `if audio_file.state.name == "FAILED": raise ValueError(...)`.
RaisesOnFailed(i, st) == i = "auto" /\ st = "FAILED"

PollExit ==
  /\ pc = "POLL"
  /\ audio_file_state # "PROCESSING"
  /\ raising' = RaisesOnFailed(impl, audio_file_state)
  /\ pc' = IF RaisesOnFailed(impl, audio_file_state)
           THEN ExcTarget(impl) ELSE "GENERATE"
  /\ UNCHANGED << impl, youtube_url, video_id, fetched, full_text, response_text,
                  parsed, ret, video_analysis_result, plan, audio_file_exists,
                  audio_file_state, remote_exists, polls, calls, ts_input,
                  time_str >>

\* model.generate_content([prompt, audio_file]) and response.text
GenerateFromAudio ==
  /\ pc = "GENERATE"
  /\ calls' = Bump(calls, "generate_audio")
  /\ \E outcome \in GenerateOutcomes :
       /\ response_text' = IF outcome.raised THEN response_text ELSE outcome.text
       /\ raising' = outcome.raised
       /\ pc' = IF outcome.raised THEN ExcTarget(impl)
                ELSE IF impl = "auto" THEN "REMOTE_CLEANUP" ELSE "PARSE_AUDIO"
  /\ UNCHANGED << impl, youtube_url, video_id, fetched, full_text, parsed, ret,
                  video_analysis_result, plan, audio_file_exists,
                  audio_file_state, remote_exists, polls, ts_input, time_str >>

\* The parser on the audio reply.  In agent_scraper.py analyze_audio returns here
\* and run_agent removes the local file and returns the analysis.
ParseAudio ==
  /\ pc = "PARSE_AUDIO"
  /\ parsed' = ParseGeminiOutput(response_text, impl = "main")
  /\ IF parsed'.raised
     THEN /\ raising' = TRUE
          /\ pc' = ExcTarget(impl)
          /\ UNCHANGED << ret, video_analysis_result, plan, audio_file_exists >>
     ELSE IF impl = "agent"
     THEN /\ video_analysis_result' = parsed'.value
          /\ plan' = "B"
          /\ audio_file_exists' = FALSE
          /\ pc' = "OUTPUT"
          /\ UNCHANGED << ret, raising >>
     ELSE /\ ret' = parsed'.value
          /\ pc' = "REMOTE_CLEANUP"
          /\ UNCHANGED << raising, video_analysis_result, plan,
                          audio_file_exists >>
  /\ UNCHANGED << impl, youtube_url, video_id, fetched, full_text, response_text,
                  audio_file_state, remote_exists, polls, calls, ts_input,
                  time_str >>

\* Whether genai.delete_file is called.  analyzer.py, in the finally of
\* analyze_audio: `if 'audio_file' in locals() and audio_file.state.name !=
\* "FAILED"`; auto_scraper.py, right after generate_content: always.
DeletesRemote(i, st) == i = "auto" \/ (st # "NONE" /\ st # "FAILED")

\* genai.delete_file, and what its exception does: in analyzer.py it is raised in
\* a finally block and replaces the pending return; in auto_scraper.py it is
\* raised before `return response.text`.
RemoteCleanup ==
  /\ pc = "REMOTE_CLEANUP"
  /\ \E ok \in BOOLEAN :
       /\ raising' = (raising \/ (DeletesRemote(impl, audio_file_state) /\ ~ok))
       /\ remote_exists' =
            IF DeletesRemote(impl, audio_file_state) /\ ok THEN FALSE
            ELSE remote_exists
       /\ calls' =
            IF ~DeletesRemote(impl, audio_file_state) THEN calls
            ELSE IF impl = "auto" /\ ok
            THEN Bump(Bump(calls, "delete_file"), "print_summary")
            ELSE Bump(calls, "delete_file")
       /\ video_analysis_result' =
            IF impl = "main" /\ ~raising' THEN ret ELSE video_analysis_result
       /\ plan' = IF ~raising' THEN "B" ELSE plan
  /\ pc' = "LOCAL_CLEANUP"
  /\ UNCHANGED << impl, youtube_url, video_id, fetched, full_text, response_text,
                  parsed, ret, audio_file_exists, audio_file_state, polls,
                  ts_input, time_str >>

\* The removal of the local audio file: the finally of main.py (`if
\* audio_file_path and os.path.exists(audio_file_path)`), the finally around
\* analyze_audio in auto_scraper.py.
LocalCleanup ==
  /\ pc = "LOCAL_CLEANUP"
  /\ audio_file_exists' = FALSE
  /\ raising' = FALSE
  /\ pc' = IF impl = "main" THEN "OUTPUT"
           ELSE IF raising THEN "FAILED" ELSE "DONE"
  /\ UNCHANGED << impl, youtube_url, video_id, fetched, full_text, response_text,
                  parsed, ret, video_analysis_result, plan, audio_file_state,
                  remote_exists, polls, calls, ts_input, time_str >>

\* A faulty variant: the output block does not test the result.
ShouldWrite_Always(result) == TRUE

\* `if video_analysis_result:`
ShouldWrite(result) == result # NoAnalysis

\* The output block of main.py and of agent_scraper.py.
Output ==
  /\ pc = "OUTPUT"
  /\ calls' = IF ShouldWrite(video_analysis_result)
              THEN Bump(Bump(calls, "write_json"), "print_json")
              ELSE calls
  /\ pc' = IF ShouldWrite(video_analysis_result) THEN "DONE" ELSE "FAILED"
  /\ raising' = FALSE
  /\ UNCHANGED << impl, youtube_url, video_id, fetched, full_text, response_text,
                  parsed, ret, video_analysis_result, plan, audio_file_exists,
                  audio_file_state, remote_exists, polls, ts_input, time_str >>

Next ==
  \/ Start
  \/ FetchTranscript
  \/ BuildTextPrompt
  \/ SendText
  \/ ParseText
  \/ DownloadAudio
  \/ UploadAudio
  \/ PollWait
  \/ PollExit
  \/ GenerateFromAudio
  \/ ParseAudio
  \/ RemoteCleanup
  \/ LocalCleanup
  \/ Output

Spec == Init /\ [][Next]_vars

(***************************************************************************)
(* Properties of the orchestrators                                         *)
(***************************************************************************)

Ended == pc \in { "DONE", "FAILED" }

AnalyzeTextStates ==
  { "ANALYZE_TEXT_PROMPT", "ANALYZE_TEXT_SEND", "ANALYZE_TEXT_PARSE" }

\* The fetch returned a non-empty sequence of segments.
FetchedSegments ==
  /\ calls["fetch_transcript"] = 1
  /\ ~fetched.raised
  /\ Len(fetched.segments) > 0

\* The fetch signalled that no transcript is available: it returned an empty
\* result or raised.
FetchUnavailable ==
  /\ calls["fetch_transcript"] = 1
  /\ fetched.raised \/ Len(fetched.segments) = 0

\* C1: when the fetch returned a non-empty sequence and the text analysis
\* succeeded, download_audio has not been called, the run is at its output block
\* or in DONE, never in FAILED, and the result is what the parser made of the text
\* reply.
C1_PlanASuccessSkipsAudio ==
  (FetchedSegments /\ plan = "A") =>
    /\ calls["download_audio"] = 0
    /\ calls["upload_file"] = 0
    /\ pc \in { "OUTPUT", "DONE" }
    /\ impl # "auto" =>
         /\ video_analysis_result = parsed.value
         /\ video_analysis_result # NoAnalysis
         /\ pc = "DONE" => calls["write_json"] = 1

C1_Witness ==
  /\ impl = "main"
  /\ FetchedSegments
  /\ plan = "A"
  /\ pc = "DONE"
  /\ calls["generate_text"] = 1
  /\ video_analysis_result = ParseGeminiOutput(ReplyTemplate, TRUE).value

\* C2: once download_audio has been called, the local audio file does not exist
\* when the run has ended, in each of the three orchestrators.
C2_AudioFileGoneAtEnd ==
  (Ended /\ calls["download_audio"] > 0) => ~audio_file_exists

\* C3: in a run with a video identifier whose fetch signalled unavailability,
\* download_audio is called exactly once: at most once at any time, and once when
\* the run has ended.
C3_UnavailableDownloadsOnce ==
  FetchUnavailable =>
    /\ calls["download_audio"] <= 1
    /\ Ended => calls["download_audio"] = 1

\* C4: when get_video_id gives None or an empty string, the run ends in FAILED at
\* START: no collaborator is called, no audio file exists, nothing is written.
C4_InvalidIdStopsAtStart ==
  (pc # "START" /\ Falsy(video_id)) =>
    /\ pc = "FAILED"
    /\ \A n \in CallNames : calls[n] = 0
    /\ ~audio_file_exists
    /\ ~remote_exists
    /\ video_analysis_result = NoAnalysis

C4_Witness ==
  /\ pc = "FAILED"
  /\ video_id = <<>>
  /\ youtube_url = UrlShortEmpty
  /\ \A n \in CallNames : calls[n] = 0

\* The transcript was handed to the text analysis and the analysis raised.
TextAnalysisRaised ==
  /\ calls["fetch_transcript"] = 1
  /\ ~fetched.raised
  /\ impl = "main" => Len(fetched.segments) > 0
  /\ pc \notin ({ "TRY_TRANSCRIPT" } \cup AnalyzeTextStates)
  /\ plan # "A"

\* C5: when the transcript was fetched and a step of the text analysis raised, the
\* run does not end there: it is at TRY_AUDIO or has called download_audio; and
\* when the audio analysis then succeeded the run is on its way to DONE, never in
\* FAILED, with the Plan B result written once.
C5_TextFailureFallsToAudio ==
  TextAnalysisRaised =>
    /\ pc = "TRY_AUDIO" \/ calls["download_audio"] = 1
    /\ plan = "B" =>
         /\ pc \in { "LOCAL_CLEANUP", "OUTPUT", "DONE" }
         /\ (impl # "auto" /\ pc \in { "OUTPUT", "DONE" }) =>
              /\ video_analysis_result = parsed.value
              /\ video_analysis_result # NoAnalysis
         /\ (impl # "auto" /\ pc = "DONE") => calls["write_json"] = 1

C5_Witness ==
  /\ impl = "main"
  /\ TextAnalysisRaised
  /\ calls["generate_text"] = 1
  /\ plan = "B"
  /\ pc = "DONE"
  /\ calls["write_json"] = 1

C7_FailedHandleNeverGenerates ==
  (audio_file_state = "FAILED" /\ pc # "POLL") =>
    /\ pc # "GENERATE"
    /\ calls["generate_audio"] = 0

\* C8: when upload, poll, generation and parse succeeded and genai.delete_file
\* raised, analyze_audio still returns its result and the run ends in DONE.
C8_DeleteFailureNotFatal ==
  (/\ Ended
   /\ calls["delete_file"] = 1
   /\ remote_exists
   /\ impl = "main" => ret # NoAnalysis) =>
    /\ pc = "DONE"
    /\ impl = "main" => video_analysis_result = ret

(***************************************************************************)
(* The timestamp codec on its own                                          *)
(***************************************************************************)

\* Every whole second up to MaxSeconds is formatted.
MaxSeconds == 3700

\* Around ten and a hundred hours, where the hours field gets its third digit.
LargeSeconds == { 35999, 36000, 359999, 360000, 363661 }

\* The floats formatted: each whole second, exact and just below the next one.
TsInputs ==
  { n * FloatScale + f : n \in (0..MaxSeconds) \cup LargeSeconds,
                         f \in { 0, FloatScale - 1 } }

TsInit ==
  /\ impl = "main"
  /\ youtube_url = <<>>
  /\ pc = "FORMAT"
  /\ response_text = None
  /\ ts_input \in TsInputs
  /\ Fresh

FormatTimestamp ==
  /\ pc = "FORMAT"
  /\ time_str' = format_timestamp(ts_input)
  /\ pc' = "FORMATTED"
  /\ UNCHANGED << impl, youtube_url, video_id, fetched, full_text, response_text,
                  parsed, ret, raising, video_analysis_result, plan,
                  audio_file_exists, audio_file_state, remote_exists, polls,
                  calls, ts_input >>

SpecTimestamp == TsInit /\ [][FormatTimestamp]_vars

DigitValue(c) == CHOOSE d \in 0..9 : DigitChars[d + 1] = c

RECURSIVE ParseInt(_)
\* int(digits) of a non-empty string of digits
ParseInt(d) ==
  IF Len(d) = 1 THEN DigitValue(d[1])
  ELSE 10 * ParseInt(SubSeq(d, 1, Len(d) - 1)) + DigitValue(d[Len(d)])

AllDigits(d) == Len(d) > 0 /\ \A i \in 1..Len(d) : IsDigit(d[i])

\* The whole seconds of a float: the n with n <= x < n + 1.
WholeSeconds(x) ==
  CHOOSE n \in 0..x : n * FloatScale <= x /\ x < (n + 1) * FloatScale

\* C10: format_timestamp gives MM:SS when the whole hours are 0 and HH:MM:SS
\* otherwise, each field of at least two digits with no padding beyond two, the
\* minutes and seconds below 60, and the fields read back as hours*3600 +
\* minutes*60 + seconds give the input truncated to whole seconds; 65 gives
\* 01:05, 3661 gives 01:01:01, 0 gives 00:00.
C10_TimestampRoundTrip ==
  pc = "FORMATTED" =>
    LET secs   == WholeSeconds(ts_input)
        parts  == Split(time_str, <<":">>)
        n      == Len(parts)
        field(i) == ParseInt(parts[i])
    IN  /\ n \in { 2, 3 }
        /\ n = 2 <=> secs < 3600
        /\ \A i \in 1..n :
             /\ AllDigits(parts[i])
             /\ Len(parts[i]) >= 2
             /\ Len(parts[i]) > 2 => parts[i][1] # "0"
        /\ Len(parts[n]) = 2 /\ field(n) < 60
        /\ Len(parts[n - 1]) = 2 /\ field(n - 1) < 60
        /\ secs = IF n = 3 THEN field(1) * 3600 + field(2) * 60 + field(3)
                  ELSE field(1) * 60 + field(2)
        /\ secs = 65 => time_str = <<"0","1",":","0","5">>
        /\ secs = 3661 => time_str = <<"0","1",":","0","1",":","0","1">>
        /\ secs = 0 => time_str = <<"0","0",":","0","0">>

C10_Witness ==
  /\ pc = "FORMATTED"
  /\ ts_input = 3661 * FloatScale + (FloatScale - 1)
  /\ time_str = <<"0","1",":","0","1",":","0","1">>

(***************************************************************************)
(* The parser on its own                                                   *)
(***************************************************************************)

TitleLineGo ==
  <<"#","#"," ","T","i","t","l","e",":"," ","I","n","t","r","o"," ","t","o"," ",
    "G","o","\n">>

TitleLineEmpty == <<"#","#"," ","t","i","t","l","e",":","\n">>

FirstLinePlain ==
  <<"U","n","d","e","r","s","t","a","n","d","i","n","g"," ","g","R","P","C","\n">>

SummaryHeadingLine ==
  <<"#","#"," ","<memo>"," ","E","x","e","c","u","t","i","v","e"," ",
    "S","u","m","m","a","r","y","\n">>

SummaryGo ==
  SummaryHeadingLine \o <<"G","o"," ","b","a","s","i","c","s","."," ","M","o","r","e",".">>

SummaryOdd ==
  <<"#","#"," ","<memo>"," ","e","x","e","c","u","t","i","v","e"," ",
    "s","u","m","m","a","r","y","\n","."," ","O","d","d">>

SummaryNoEmoji ==
  <<"#","#"," ","E","x","e","c","u","t","i","v","e"," ","S","u","m","m","a","r","y",
    "\n","P","l","a","i","n",".">>

\* Length of a first sentence that is longer than TitleMax.
LongLen == 105

SummaryLong ==
  SummaryHeadingLine \o [i \in 1..LongLen |-> "x"] \o <<"."," ","e","n","d">>

TopicsHeadingLine ==
  <<"#","#"," ","<stopwatch>","<vs16>"," ","K","e","y"," ","T","o","p","i","c","s",
    " ","&"," ","T","i","m","e","s","t","a","m","p","s","\n">>

TopicsHeadingBare == <<"#","#"," ","K","e","y"," ","T","o","p","i","c","s","\n">>

BulletSetup ==
  <<"-"," ","*","*","[","0","0",":","1","0","]","*","*"," ","S","e","t","u","p">>

BulletWrapUp ==
  <<"-"," ","*","*","[","0","1",":","0","2",":","0","3","]","*","*"," ",
    "W","r","a","p","-","u","p">>

BulletIndented ==
  <<" "," ","-"," ","*","*","[","0","0",":","2","0","]","*","*"," "," ",
    "I","n","d","e","n","t","e","d"," ">>

BulletNoTopic == <<"-"," ","*","*","[","0","0",":","3","0","]","*","*">>

BulletOneDigit ==
  <<"-"," ","*","*","[","0",":","1","0","]","*","*"," ","S","h","o","r","t">>

BulletNoStars == <<"-"," ","[","0","0",":","1","0","]"," ","P","l","a","i","n">>

BulletBadSeconds ==
  <<"-"," ","*","*","[","0","0",":","1","0",":","5","]","*","*"," ","O","d","d">>

TitleParts ==
  { <<>>, TitleLineGo, TitleLineEmpty, FirstLinePlain, <<"\n">> }

SummaryParts ==
  { <<>>, SummaryGo, SummaryOdd, SummaryNoEmoji, SummaryLong }

SectionSeps == { <<"\n">>, <<"\n","\n">> }

TwoBullets == BulletSetup \o <<"\n">> \o BulletWrapUp

TopicsParts ==
  { <<>>, TopicsHeadingLine \o TwoBullets, TopicsHeadingBare \o BulletSetup,
    TwoBullets }

\* Replies put together like the template: title, summary, separator, topics.
TemplateTexts ==
  { t \o e \o sep \o k :
      t \in TitleParts, e \in SummaryParts, sep \in SectionSeps, k \in TopicsParts }

BulletLines ==
  { BulletSetup, BulletWrapUp, BulletIndented, BulletNoTopic, BulletOneDigit,
    BulletNoStars, BulletBadSeconds, <<>> }

\* Most lines under the Key Topics heading.
MaxBulletLines == 2

\* The sequences over S of length at most n.
SeqsUpTo(S, n) == UNION { [1..k -> S] : k \in 0..n }

\* The Key Topics heading followed by any lines, matching or not.
BulletTexts ==
  { TopicsHeadingLine \o Join(ls, <<"\n">>) : ls \in SeqsUpTo(BulletLines, MaxBulletLines) }

GarbageAlphabet == { "#", "\n", " ", "a", ".", ":" }

\* Longest text without any structure.
MaxGarbageLen == 3

GarbageTexts == SeqsUpTo(GarbageAlphabet, MaxGarbageLen)

\* A bullet line, matching or not, above the Key Topics heading.
LinesAboveHeading == { BulletSetup, BulletNoStars }

\* Lines above the Key Topics heading and lines under it.
AroundHeadingTexts ==
  { pre \o <<"\n">> \o TopicsHeadingLine \o Join(ls, <<"\n">>) :
      pre \in LinesAboveHeading, ls \in SeqsUpTo(BulletLines, MaxBulletLines) }

RawTexts ==
  TemplateTexts \cup BulletTexts \cup AroundHeadingTexts \cup GarbageTexts
    \cup Replies

ParserInit ==
  /\ impl \in { "main", "agent" }
  /\ youtube_url = <<>>
  /\ pc = "PARSE"
  /\ response_text \in RawTexts
  /\ ts_input = 0
  /\ Fresh

\* _parse_gemini_output of analyzer.py (impl main), parse_gemini_output of
\* agent_scraper.py (impl agent)
ParseReply ==
  /\ pc = "PARSE"
  /\ parsed' = ParseGeminiOutput(response_text, impl = "main")
  /\ pc' = "PARSED"
  /\ UNCHANGED << impl, youtube_url, video_id, fetched, full_text, response_text,
                  ret, raising, video_analysis_result, plan, audio_file_exists,
                  audio_file_state, remote_exists, polls, calls, ts_input,
                  time_str >>

SpecParser == ParserInit /\ [][ParseReply]_vars

ContainsCI(s, pat) == \E i \in 1..(Len(s) + 1) : MatchLit(s, i, pat, TRUE)

ExecSummaryWord ==
  <<"e","x","e","c","u","t","i","v","e"," ","s","u","m","m","a","r","y">>

KeyTopicsWord == <<"k","e","y"," ","t","o","p","i","c","s">>

\* No line of the text, stripped, has the bullet shape.
NoBulletLine(s) ==
  LET ls == Split(s, <<"\n">>)
  IN  \A i \in 1..Len(ls) : BulletTsEnd(Strip(ls[i])) = 0

\* The first line is blank or starts with the heading marker.
FirstLineGivesNoTitle(s) ==
  LET first == Split(s, <<"\n">>)[1]
  IN  Strip(first) = <<>> \/ MatchLit(first, 1, HashHash, FALSE)

\* C9: for every text the parser returns a record of title, executive_summary
\* and key_topics and does not raise.  Without the words "Executive Summary" the
\* summary is empty; without the words "Key Topics", or without a line of the
\* bullet shape, key_topics is empty; without "Title:", the title is what the
\* fallbacks find, and empty when the first line gives none and there is no
\* summary.
C9_ParserNeverRaises ==
  pc = "PARSED" =>
    /\ ~parsed.raised
    /\ DOMAIN parsed.value = { "title", "executive_summary", "key_topics" }
    /\ ~ContainsCI(response_text, ExecSummaryWord)
         => parsed.value.executive_summary = <<>>
    /\ ~ContainsCI(response_text, KeyTopicsWord) => parsed.value.key_topics = <<>>
    /\ NoBulletLine(response_text) => parsed.value.key_topics = <<>>
    /\ (/\ ~ContainsCI(response_text, TitleLit)
        /\ FirstLineGivesNoTitle(response_text)
        /\ parsed.value.executive_summary = <<>>) => parsed.value.title = <<>>

C9_Witness ==
  /\ pc = "PARSED"
  /\ response_text = <<>>
  /\ ~parsed.raised
  /\ parsed.value = VideoAnalysis(<<>>, <<>>, <<>>)

(***************************************************************************)
(* get_video_id on its own                                                 *)
(***************************************************************************)

UrlShortHead ==
  <<"h","t","t","p","s",":","/","/","y","o","u","t","u",".","b","e","/">>

UrlWatchHead == <<"w","a","t","c","h","?">>

\* A watch URL in which "v=" comes a second time before any "&".
UrlTwoVEq ==
  <<"h","t","t","p","s",":","/","/","w","w","w",".","y","o","u","t","u","b","e",
    ".","c","o","m","/","w","a","t","c","h","?","v","=","a","b","v","=","c","d">>

UrlAlphabet == { "v", "=", "&", "/", "?", "a" }

\* Longest tail put after the head of a URL.
MaxUrlTail == 4

UrlTexts ==
  Urls \cup { UrlTwoVEq }
    \cup { h \o t : h \in { UrlShortHead, UrlWatchHead },
                    t \in SeqsUpTo(UrlAlphabet, MaxUrlTail) }

VideoIdInit ==
  /\ impl \in { "agent", "auto" }
  /\ youtube_url \in UrlTexts
  /\ pc = "GETID"
  /\ response_text = None
  /\ ts_input = 0
  /\ Fresh

\* get_video_id of agent_scraper.py (impl agent) and of auto_scraper.py (impl
\* auto): the same text in both files.
ExtractVideoId ==
  /\ pc = "GETID"
  /\ video_id' = get_video_id(youtube_url)
  /\ pc' = "GOTID"
  /\ UNCHANGED << impl, youtube_url, fetched, full_text, response_text, parsed,
                  ret, raising, video_analysis_result, plan, audio_file_exists,
                  audio_file_state, remote_exists, polls, calls, ts_input,
                  time_str >>

SpecVideoId == VideoIdInit /\ [][ExtractVideoId]_vars

\* The text of url after its last "/", the whole of url when it has none.
AfterLastSlash(url) ==
  LET slashes == { i \in 1..Len(url) : url[i] = "/" }
      last == IF slashes = {} THEN 0
              ELSE CHOOSE i \in slashes : \A j \in slashes : j <= i
  IN  Slice(url, last + 1, Len(url) + 1)

\* s up to its first occurrence of the character c, all of s without one.
UpToFirst(s, c) == Slice(s, 1, FindFrom(s, 1, << c >>))

\* The text after the first "v=" of url, up to the next "&" or the end.
AfterFirstVEq(url) ==
  LET p == FindFrom(url, 1, VEqLit) + Len(VEqLit)
  IN  Slice(url, p, FindFrom(url, p, <<"&">>))

\* C11: for a URL containing "youtu.be" the identifier is the segment after the
\* last "/" without its "?" query; otherwise, for a URL containing "v=", the text
\* after the first "v=" up to the next "&" or the end of the string; otherwise
\* there is none.  The short-link rule wins when both markers are there.
C11_VideoIdRule ==
  pc = "GOTID" =>
    video_id =
      IF Contains(youtube_url, YoutuBeLit)
      THEN UpToFirst(AfterLastSlash(youtube_url), "?")
      ELSE IF Contains(youtube_url, VEqLit)
      THEN AfterFirstVEq(youtube_url)
      ELSE None

\* The rule of C11 for the URLs in which the text between the first "v=" and the
\* next "&" holds no second "v=".
C11_HoldsWithoutSecondVEq ==
  (pc = "GOTID" /\ (Contains(youtube_url, YoutuBeLit)
                      \/ ~Contains(AfterFirstVEq(youtube_url), VEqLit)))
    => C11_VideoIdRule

(***************************************************************************)
(* The key topics of a parsed reply                                        *)
(***************************************************************************)

\* ts reads MM:SS or HH:MM:SS: fields of two digits with ":" between them.
TimestampShape(ts) ==
  /\ Len(ts) \in { 5, 8 }
  /\ \A i \in 1..Len(ts) :
       IF i \in { 3, 6 } THEN ts[i] = ":" ELSE IsDigit(ts[i])

\* C12: every KeyTopic of every VideoAnalysis the parser produces has a
\* timestamp of the form MM:SS or HH:MM:SS and a topic that is not empty.
C12_KeyTopicWellFormed ==
  (pc = "PARSED" /\ ~parsed.raised) =>
    \A i \in 1..Len(parsed.value.key_topics) :
      /\ TimestampShape(parsed.value.key_topics[i].timestamp)
      /\ parsed.value.key_topics[i].topic # <<>>

\* The timestamp half of C12 on its own.
C12_TimestampHalfHolds ==
  (pc = "PARSED" /\ ~parsed.raised) =>
    \A i \in 1..Len(parsed.value.key_topics) :
      TimestampShape(parsed.value.key_topics[i].timestamp)

\* The stripped line l reads "- **[<timestamp>]**" and then anything.
BulletShape(l) ==
  \E n \in { 5, 8 } :
    /\ MatchLit(l, 1, BulletOpenLit, FALSE)
    /\ Len(l) >= Len(BulletOpenLit) + n
    /\ TimestampShape(Slice(l, Len(BulletOpenLit) + 1, Len(BulletOpenLit) + 1 + n))
    /\ MatchLit(l, Len(BulletOpenLit) + 1 + n, BulletCloseLit, FALSE)

\* The entry a line of the bullet shape stands for: its timestamp and the
\* trimmed text after the closing "]**".
BulletEntry(l) ==
  LET a == Len(BulletOpenLit) + 1
      n == CHOOSE k \in { 5, 8 } : MatchLit(l, a + k, BulletCloseLit, FALSE)
  IN  [timestamp |-> Slice(l, a, a + n),
       topic |-> Strip(Slice(l, a + n + Len(BulletCloseLit), Len(l) + 1))]

TitleLineRemainder(s) ==
  LET p == Search("title", s)
      a == SkipSpace(s, p + Len(HashHash)) + Len(TitleLit)
  IN  IF p = 0 THEN <<>> ELSE Strip(Slice(s, a, LineEnd(s, a)))

\* The trimmed first line of s, empty when it starts with the heading marker.
PlainFirstLine(s) ==
  LET first == Slice(s, 1, LineEnd(s, 1))
  IN  IF MatchLit(first, 1, HashHash, FALSE) THEN <<>> ELSE Strip(first)

\* The summary up to its first period, trimmed, cut to TitleCut characters and
\* "..." when longer than TitleMax.
FirstSentenceTitle(summary) ==
  LET sentence == Strip(Slice(summary, 1, FindFrom(summary, 1, <<".">>)))
  IN  IF Len(sentence) > TitleMax
      THEN SubSeq(sentence, 1, TitleCut) \o EllipsisLit
      ELSE sentence

\* The first TitleMax characters of the summary and an ellipsis.
SummaryHeadTitle(summary) ==
  IF summary = <<>> THEN <<>> ELSE Take(summary, TitleMax) \o EllipsisLit

\* The first of the four candidates that is not empty, in their fixed order.
TitleByChain(s, summary) ==
  IF TitleLineRemainder(s) # <<>> THEN TitleLineRemainder(s)
  ELSE IF PlainFirstLine(s) # <<>> THEN PlainFirstLine(s)
  ELSE IF FirstSentenceTitle(summary) # <<>> THEN FirstSentenceTitle(summary)
  ELSE SummaryHeadTitle(summary)

\* C14: the title is the first success of a fixed order: the trimmed remainder
\* of the "## Title:" line; else the trimmed first line when it does not start
\* with the heading marker; else, with a summary, the summary up to its first
\* period, cut to 97 characters and "..." when longer than 100; else the first
\* 100 characters of the summary and an ellipsis.  A text without a Title line
\* and without a summary heading whose first line is "Understanding gRPC" gets
\* that title and no key topics.
C14_TitleFallbackChain ==
  (pc = "PARSED" /\ ~parsed.raised) =>
    /\ parsed.value.title
         = TitleByChain(response_text, parsed.value.executive_summary)
    /\ response_text = ReplyLoose =>
         /\ parsed.value.title =
              <<"U","n","d","e","r","s","t","a","n","d","i","n","g"," ",
                "g","R","P","C">>
         /\ parsed.value.key_topics = <<>>

\* The chain of C14 where its last step is not reached and the Title line, when
\* there is one, has text after the colon.
C14_HoldsBeforeLastStep ==
  (/\ pc = "PARSED"
   /\ Search("title", response_text) # 0 => TitleLineRemainder(response_text) # <<>>
   /\ \/ TitleLineRemainder(response_text) # <<>>
      \/ PlainFirstLine(response_text) # <<>>
      \/ FirstSentenceTitle(parsed.value.executive_summary) # <<>>
      \/ parsed.value.executive_summary = <<>>)
    => C14_TitleFallbackChain

\* Where the last step of C14 is missing: in agent_scraper.py a summary whose
\* first sentence is empty leaves the title empty.
C14_AgentEmptyTitle ==
  /\ pc = "PARSED"
  /\ impl = "agent"
  /\ response_text = SummaryOdd \o <<"\n">>
  /\ parsed.value.executive_summary = <<".", " ", "O", "d", "d">>
  /\ parsed.value.title = <<>>

(***************************************************************************)
(* The executive summary of a parsed reply                                 *)
(***************************************************************************)

\* The Key Topics heading, "##", blanks, "<stopwatch><vs16> Key Topics &
\* Timestamps", stands in s at position j.
TopicsHeadingAt(s, j) ==
  /\ MatchLit(s, j, HashHash, TRUE)
  /\ MatchLit(s, SkipSpace(s, j + Len(HashHash)), TopicsHeadingLit, TRUE)

\* The position just after the Executive Summary heading line of s.
SummaryStart(s) ==
  SkipSpace(s, Search("summary", s) + Len(HashHash)) + Len(SummaryHeadingLit)

\* The first Key Topics heading at or after position a, Len(s) + 1 without one.
NextTopicsHeading(s, a) ==
  LET hits == { j \in a..Len(s) : TopicsHeadingAt(s, j) }
  IN  IF hits = {} THEN Len(s) + 1 ELSE Least(hits)

\* C15: when the text has the Executive Summary heading, executive_summary is
\* the trimmed text between that heading and the next Key Topics heading, or the
\* end of the text without one; it holds neither the Key Topics heading nor a
\* bullet line after it, however many newlines separate the two sections.
C15_SummaryStopsAtTopics ==
  (pc = "PARSED" /\ ~parsed.raised /\ Search("summary", response_text) # 0) =>
    LET a == SummaryStart(response_text)
        summary == parsed.value.executive_summary
    IN  /\ summary = Strip(Slice(response_text, a,
                                 NextTopicsHeading(response_text, a)))
        /\ \A j \in 1..Len(summary) : ~TopicsHeadingAt(summary, j)

\* C15 for the texts in which a blank line stands before the next Key Topics
\* heading, or which have none after the summary heading.
C15_HoldsAfterBlankLine ==
  (/\ pc = "PARSED"
   /\ Search("summary", response_text) # 0
   /\ LET a == SummaryStart(response_text)
          j == NextTopicsHeading(response_text, a)
      IN  j <= Len(response_text) =>
            (j - 2 >= a /\ MatchLit(response_text, j - 2, <<"\n","\n">>, FALSE)))
    => C15_SummaryStopsAtTopics

(***************************************************************************)
(* Termination of a run                                                    *)
(***************************************************************************)

\* The run gets on: it comes to another place of the program or, in the poll
\* loop, to another poll.  Every step of Next is such a step, and one is possible
\* wherever the run has not ended.
Proceed ==
  /\ ~Ended
  /\ pc' \in { "TRY_TRANSCRIPT", "ANALYZE_TEXT_PROMPT", "ANALYZE_TEXT_SEND",
               "ANALYZE_TEXT_PARSE", "TRY_AUDIO", "UPLOAD", "POLL", "GENERATE",
               "PARSE_AUDIO", "REMOTE_CLEANUP", "LOCAL_CLEANUP", "OUTPUT", "DONE",
               "FAILED" }
  /\ polls' \in { polls, polls + 1 }

\* A run is one sequential flow with nothing to stop it between two statements:
\* every collaborator call returns or raises, so a run that has not ended gets
\* on.  PollStates answers PROCESSING to fewer than MaxPolls polls, after which
\* the handle has left that state.
SpecLive == Init /\ [][Next]_vars /\ WF_<<pc, polls>>(Proceed)

\* The places of a run in the order of the program text.
PcOrder ==
  << "START", "TRY_TRANSCRIPT", "ANALYZE_TEXT_PROMPT", "ANALYZE_TEXT_SEND",
     "ANALYZE_TEXT_PARSE", "TRY_AUDIO", "UPLOAD", "POLL", "GENERATE",
     "PARSE_AUDIO", "REMOTE_CLEANUP", "LOCAL_CLEANUP", "OUTPUT", "DONE",
     "FAILED" >>

PcRank(p) == CHOOSE i \in 1..Len(PcOrder) : PcOrder[i] = p

\* A turn of the poll loop: the handle read PROCESSING at the loop test.
InPollTurn == pc = "POLL" /\ audio_file_state = "PROCESSING"

\* What a step may do: only a turn of the poll loop stays where it is, every
\* other step moves forward; a turn of the poll loop reads the handle once more
\* with get_file; and the loop is left at once when the state read is not
\* PROCESSING.
PollDiscipline ==
  /\ pc' = pc => InPollTurn
  /\ pc' # pc => PcRank(pc') > PcRank(pc)
  /\ InPollTurn => calls'["get_file"] = calls["get_file"] + 1
  /\ (pc = "POLL" /\ ~InPollTurn) => pc' # "POLL"

\* C16: every run ends in DONE or FAILED, given that every collaborator call
\* returns or raises and that the handle leaves PROCESSING; the poll loop of
\* analyze_audio is the only loop, each of its turns reads the handle state
\* again after the sleep, and it is left as soon as the state read is not
\* PROCESSING.
C16_TerminatesPollingOnly ==
  /\ <>Ended
  /\ [][PollDiscipline]_vars

\* The termination half of C16 on its own.
C16_Terminates == <>Ended

\* The loop half of C16 for the two orchestrators whose loop body can run.
C16_PollDisciplineButAgent == [][impl # "agent" => PollDiscipline]_vars

====
